---------------------------- MODULE Spec2Model ----------------------------
(***************************************************************************)
(* VoluMatrix NRRD decoder (AVMVolumeManager): header parser, raw loader,  *)
(* min/max scan and volume-texture builder.                                *)
(*                                                                         *)
(* The repository holds four revisions of the decoder.  Each is modelled   *)
(* from its own source and is selected by the variable `variant`:          *)
(*   "Build"  src/Source/TBRaymarchProject/TBRaymarchProject.Build.cs      *)
(*            lines 33-270                                                 *)
(*   "CppA"   src/Source/TBRaymarchProject/Private/VMVolumeManager.cpp     *)
(*            lines 1-303                                                  *)
(*   "CppB"   src/Source/TBRaymarchProject/Private/VMVolumeManager.cpp     *)
(*            lines 305-760                                                *)
(*   "Part0"  src/unnamed/part_000                                         *)
(*                                                                         *)
(* Text is modelled at character level: an FString is a sequence of        *)
(* one-character strings, a header file is a sequence of lines.            *)
(***************************************************************************)
EXTENDS Integers, Sequences, FiniteSets, TLC

VARIABLES
    variant,        \* which revision of the decoder runs
    input,          \* the header file on disk (structured; HeaderLines renders it)
    rawFile,        \* the raw data file the load stage finds on disk: [status, bytes]
    pc,             \* position of the decode call
    Header,         \* FVMNRRDHeaderInfo / FVMNRRDHeader being filled
    RawBytes,       \* TArray<uint8> handed from the load stage on
    MinVal,         \* int16 MinVal of LoadNRRDIntensity / Header.MinValue
    MaxVal,         \* int16 MaxVal of LoadNRRDIntensity / Header.MaxValue
    Tex,            \* the UVolumeTexture source mip: [made, bytes, CopyBytes, ExpectedBytes]
    Error,          \* kind of the error that ended the call ("" = none)
    stage,          \* the last stage of the call that ran
    LoadedIntensityTexture,     \* AVMVolumeManager::LoadedIntensityTexture
    LastHeaderInfo,             \* AVMVolumeManager::LastHeaderInfo
    call            \* the BeginPlay / LoadAndApplyNRRD calls made on the actor, each
                    \* with its own locals

\* the locals of one LoadNRRDIntensity call followed stage by stage
decodeVars == <<variant, input, rawFile, pc, Header, RawBytes, MinVal, MaxVal, Tex, Error, stage>>

\* the actor and the calls made on it
actorVars == <<LoadedIntensityTexture, LastHeaderInfo, call>>

vars == <<variant, input, rawFile, pc, Header, RawBytes, MinVal, MaxVal, Tex, Error, stage,
          LoadedIntensityTexture, LastHeaderInfo, call>>

-----------------------------------------------------------------------------
(* Bounds of the model *)

\* sizes of the well-formed headers range over 1..MaxSize on each axis
MaxSize == 2
\* raw files hold 0..MaxFileLen bytes
MaxFileLen == 8
\* a header differs from the reference header in at most this many fields
MaxDeviations == 2
\* calls made on one actor
MaxCalls == 2

\* the most empty lines a header file begins with
MaxBlankLines == 1

-----------------------------------------------------------------------------
(* Character-level text (FString) *)

Txt_NRRD == <<"N", "R", "R", "D">>
Txt_hash == <<"#">>
Txt_colon == <<":">>
Txt_space == <<" ">>
Txt_sizes == <<"s", "i", "z", "e", "s">>
Txt_spacings == <<"s", "p", "a", "c", "i", "n", "g", "s">>
Txt_type == <<"t", "y", "p", "e">>
Txt_encoding == <<"e", "n", "c", "o", "d", "i", "n", "g">>
Txt_endian == <<"e", "n", "d", "i", "a", "n">>
Txt_datafile == <<"d", "a", "t", "a", " ", "f", "i", "l", "e">>
Txt_dimension == <<"d", "i", "m", "e", "n", "s", "i", "o", "n">>
Txt_short == <<"s", "h", "o", "r", "t">>
Txt_int16 == <<"i", "n", "t", "1", "6">>
Txt_float == <<"f", "l", "o", "a", "t">>
Txt_raw == <<"r", "a", "w">>
Txt_RAW == <<"R", "A", "W">>
Txt_gzip == <<"g", "z", "i", "p">>
Txt_little == <<"l", "i", "t", "t", "l", "e">>
Txt_big == <<"b", "i", "g">>
Txt_vraw == <<"v", ".", "r", "a", "w">>
Txt_dvraw == <<"d", ":", "v", ".", "r", "a", "w">>
Txt_NRRD0004 == <<"N", "R", "R", "D", "0", "0", "0", "4">>
Txt_nrrd0004 == <<"n", "r", "r", "d", "0", "0", "0", "4">>
Txt_XRRD0004 == <<"X", "R", "R", "D", "0", "0", "0", "4">>
Txt_spNRRD0004 == <<" ", "N", "R", "R", "D", "0", "0", "0", "4">>

UpperChars == <<"A","B","C","D","E","F","G","H","I","J","K","L","M",
                "N","O","P","Q","R","S","T","U","V","W","X","Y","Z">>
LowerChars == <<"a","b","c","d","e","f","g","h","i","j","k","l","m",
                "n","o","p","q","r","s","t","u","v","w","x","y","z">>
DigitChars == <<"0","1","2","3","4","5","6","7","8","9">>

\* FChar::ToLower
ToLower(c) ==
    IF \E i \in 1..26 : UpperChars[i] = c
    THEN LowerChars[CHOOSE i \in 1..26 : UpperChars[i] = c]
    ELSE c

\* the upper-case form of a letter, for header files written in capitals
ToUpper(c) ==
    IF \E i \in 1..26 : LowerChars[i] = c
    THEN UpperChars[CHOOSE i \in 1..26 : LowerChars[i] = c]
    ELSE c

UpperText(s) == [i \in 1..Len(s) |-> ToUpper(s[i])]

\* FChar::IsWhitespace
IsWhitespace(c) == c \in {" ", "\t"}

\* FChar::IsDigit
IsDigit(c) == \E i \in 1..10 : DigitChars[i] = c

DigitValue(c) == (CHOOSE i \in 1..10 : DigitChars[i] = c) - 1

\* FString::IsEmpty
IsEmpty(s) == Len(s) = 0

\* FString::Mid(Start): the text from 0-based index Start on
Mid(s, n) == SubSeq(s, n + 1, Len(s))

RECURSIVE TrimStart(_)
TrimStart(s) ==
    IF Len(s) > 0 /\ IsWhitespace(s[1]) THEN TrimStart(Tail(s)) ELSE s

RECURSIVE TrimEnd(_)
TrimEnd(s) ==
    IF Len(s) > 0 /\ IsWhitespace(s[Len(s)])
    THEN TrimEnd(SubSeq(s, 1, Len(s) - 1))
    ELSE s

\* FString::TrimStartAndEnd
TrimStartAndEnd(s) == TrimEnd(TrimStart(s))

\* FString::Equals(Other, ESearchCase::IgnoreCase)
EqualsIgnoreCase(a, b) ==
    /\ Len(a) = Len(b)
    /\ \A i \in 1..Len(a) : ToLower(a[i]) = ToLower(b[i])

\* FString::Equals(Other): the default is ESearchCase::CaseSensitive
Equals(a, b) == a = b

\* FString::StartsWith(Prefix): the default is ESearchCase::IgnoreCase
StartsWith(s, p) ==
    /\ Len(s) >= Len(p)
    /\ \A i \in 1..Len(p) : ToLower(s[i]) = ToLower(p[i])

\* index of the first occurrence of character c in s, 0 when there is none
FindChar(s, c) ==
    IF \E i \in 1..Len(s) : s[i] = c
    THEN CHOOSE i \in 1..Len(s) : s[i] = c /\ \A j \in 1..(i - 1) : s[j] # c
    ELSE 0

\* FString::Contains(":")
Contains(s, c) == FindChar(s, c) # 0

\* FString::Split(":", &Left, &Right): splits at the first occurrence
Split(s, c) ==
    LET p == FindChar(s, c)
    IN  IF p = 0
        THEN [ok |-> FALSE, Left |-> <<>>, Right |-> <<>>]
        ELSE [ok |-> TRUE, Left |-> SubSeq(s, 1, p - 1), Right |-> SubSeq(s, p + 1, Len(s))]

\* the tokens of s between the separator characters seps, empty tokens culled
RECURSIVE Tokenize(_, _, _)
Tokenize(s, seps, cur) ==
    IF Len(s) = 0
    THEN IF Len(cur) = 0 THEN <<>> ELSE <<cur>>
    ELSE IF s[1] \in seps
         THEN (IF Len(cur) = 0 THEN <<>> ELSE <<cur>>) \o Tokenize(Tail(s), seps, <<>>)
         ELSE Tokenize(Tail(s), seps, Append(cur, s[1]))

\* FString::ParseIntoArray(Tokens, TEXT(" "), true)
ParseIntoArray(s) == Tokenize(s, {" "}, <<>>)

\* FString::ParseIntoArrayWS(Parts)
ParseIntoArrayWS(s) == Tokenize(s, {" ", "\t"}, <<>>)

\* the value of the leading run of digits of s, continuing from acc
RECURSIVE DigitRun(_, _)
DigitRun(s, acc) ==
    IF Len(s) > 0 /\ IsDigit(s[1])
    THEN DigitRun(Tail(s), acc * 10 + DigitValue(s[1]))
    ELSE acc

\* FCString::Atoi: leading whitespace, an optional sign, then digits up to
\* the first other character; 0 when there are no digits
Atoi(s) ==
    LET t == TrimStart(s)
    IN  IF Len(t) > 0 /\ t[1] = "-" THEN 0 - DigitRun(Tail(t), 0)
        ELSE IF Len(t) > 0 /\ t[1] = "+" THEN DigitRun(Tail(t), 0)
        ELSE DigitRun(t, 0)

\* s after its leading run of digits
RECURSIVE SkipDigits(_)
SkipDigits(s) == IF Len(s) > 0 /\ IsDigit(s[1]) THEN SkipDigits(Tail(s)) ELSE s

\* the digits after the decimal point, the first of them worth w thousandths
RECURSIVE FractionRun(_, _)
FractionRun(s, w) ==
    IF Len(s) > 0 /\ IsDigit(s[1])
    THEN DigitValue(s[1]) * w + FractionRun(Tail(s), w \div 10)
    ELSE 0

\* FCString::Atof: leading whitespace, an optional sign, digits and an
\* optional decimal point with digits, up to the first other character; 0
\* when there are no digits. A float is written as its number of
\* thousandths (1.0f is 1000); the header files hold no exponents.
Atof(s) ==
    LET t     == TrimStart(s)
        neg   == Len(t) > 0 /\ t[1] = "-"
        body  == IF Len(t) > 0 /\ t[1] \in {"-", "+"} THEN Tail(t) ELSE t
        rest  == SkipDigits(body)
        whole == DigitRun(body, 0) * 1000
        frac  == IF Len(rest) > 0 /\ rest[1] = "." THEN FractionRun(Tail(rest), 100) ELSE 0
    IN  IF neg THEN 0 - (whole + frac) ELSE whole + frac

\* the check LexTryParseString makes when the parsed value is 0: the text
\* (after signs) must show a zero before any other character
RECURSIVE SawZero(_, _)
SawZero(s, seen) ==
    IF Len(s) = 0 \/ IsWhitespace(s[1]) \/ s[1] = "."
    THEN seen
    ELSE LET now == seen \/ s[1] = "0"
         IN  IF ~now THEN FALSE ELSE SawZero(Tail(s), now)

RECURSIVE SkipSigns(_)
SkipSigns(s) ==
    IF Len(s) > 0 /\ (s[1] \in {"+", "-"} \/ IsWhitespace(s[1]))
    THEN SkipSigns(Tail(s))
    ELSE s

\* LexTryParseString(int32&, Part): [ok, Value]
LexTryParseString(s) ==
    IF Len(s) = 0 THEN [ok |-> FALSE, Value |-> 0]
    ELSE LET v == Atoi(s)
         IN  IF v = 0
             THEN [ok |-> SawZero(SkipSigns(s), FALSE), Value |-> 0]
             ELSE [ok |-> TRUE, Value |-> v]


-----------------------------------------------------------------------------
(* The header file on disk *)

RECURSIVE NatText(_)
NatText(n) ==
    IF n < 10 THEN <<DigitChars[n + 1]>>
    ELSE NatText(n \div 10) \o <<DigitChars[(n % 10) + 1]>>

\* the decimal text an exporter writes for integer n
IntText(n) == IF n < 0 THEN <<"-">> \o NatText(0 - n) ELSE NatText(n)

RECURSIVE JoinTokens(_)
JoinTokens(toks) ==
    IF Len(toks) = 0 THEN <<>>
    ELSE IF Len(toks) = 1 THEN toks[1]
    ELSE toks[1] \o Txt_space \o JoinTokens(Tail(toks))

\* the ways a header file writes its keys: "sizes: 1 2 3", "SIZES: 1 2 3"
\* and "sizes : 1 2 3"
KeyStyles == {"plain", "upper", "spaced"}

\* the line of a field that is present (f = <<value>>), nothing otherwise
FieldLine(style, key, f) ==
    IF Len(f) = 0 THEN <<>>
    ELSE IF style = "upper" THEN << UpperText(key) \o Txt_colon \o Txt_space \o f[1] >>
    ELSE IF style = "spaced" THEN << key \o Txt_space \o Txt_colon \o Txt_space \o f[1] >>
    ELSE << key \o Txt_colon \o Txt_space \o f[1] >>

\* the text of a float of v thousandths, v a multiple of 100: "0.5", "2"
FloatText(v) ==
    IF v % 1000 = 0 THEN NatText(v \div 1000)
    ELSE NatText(v \div 1000) \o <<".">> \o NatText((v % 1000) \div 100)

\* spacings lines: three tokens, and one token too few
SpacingsLines == { <<FloatText(500), FloatText(1500), FloatText(2000)>>,
                   <<FloatText(500), FloatText(1500)>> }

\* n empty lines
BlankLines(n) == [i \in 1..n |-> <<>>]

\* the lines of the header file, in the order the exporter writes them
HeaderLines(h) ==
    BlankLines(h.blank)
    \o <<h.magic>>
    \o FieldLine(h.keys, Txt_type, h.type)
    \o FieldLine(h.keys, Txt_dimension, h.dim)
    \o (IF Len(h.sizes) = 0 THEN <<>>
        ELSE FieldLine(h.keys, Txt_sizes, <<JoinTokens(h.sizes[1])>>))
    \o (IF Len(h.spacings) = 0 THEN <<>>
        ELSE FieldLine(h.keys, Txt_spacings, <<JoinTokens(h.spacings[1])>>))
    \o FieldLine(h.keys, Txt_encoding, h.encoding)
    \o FieldLine(h.keys, Txt_endian, h.endian)
    \o FieldLine(h.keys, Txt_datafile, h.datafile)

\* sizes lines of three positive integers
GoodSizes == { <<IntText(a), IntText(b), IntText(c)>> : a, b, c \in 1..MaxSize }

\* sizes lines with a wrong count, a non-positive or a malformed token
BadSizes ==
    { <<IntText(2), IntText(2)>>,
      <<IntText(1), IntText(2), IntText(2), IntText(1)>>,
      <<IntText(0), IntText(1), IntText(1)>>,
      <<IntText(1), IntText(-1), IntText(1)>>,
      <<IntText(1), IntText(1), <<"2", "x">>>>,
      <<IntText(1), <<"x">>, IntText(2), IntText(2)>> }

RefHeader ==
    [ readable |-> TRUE,
      blank    |-> 0,
      keys     |-> "plain",
      magic    |-> Txt_NRRD0004,
      type     |-> <<Txt_short>>,
      dim      |-> <<IntText(3)>>,
      sizes    |-> << <<IntText(1), IntText(1), IntText(2)>> >>,
      spacings |-> <<>>,
      encoding |-> <<Txt_raw>>,
      endian   |-> <<>>,
      datafile |-> <<Txt_vraw>> ]

\* the values each field of a header file ranges over
FieldValues ==
    [ readable |-> BOOLEAN,
      blank    |-> 0..MaxBlankLines,
      keys     |-> KeyStyles,
      magic    |-> {Txt_NRRD0004, Txt_nrrd0004, Txt_XRRD0004, Txt_spNRRD0004},
      type     |-> {<<>>, <<Txt_short>>, <<Txt_int16>>, <<Txt_float>>},
      dim      |-> {<<>>, <<IntText(3)>>, <<IntText(2)>>},
      sizes    |-> {<<>>} \cup { <<t>> : t \in GoodSizes \cup BadSizes },
      spacings |-> {<<>>} \cup { <<t>> : t \in SpacingsLines },
      encoding |-> {<<>>, <<Txt_raw>>, <<Txt_RAW>>, <<Txt_gzip>>},
      endian   |-> {<<>>, <<Txt_little>>, <<Txt_big>>},
      datafile |-> {<<>>, <<Txt_vraw>>, <<Txt_dvraw>>} ]

HeaderFields == DOMAIN FieldValues

\* the header files that differ from the reference header in at most k fields
RECURSIVE HeadersWithin(_)
HeadersWithin(k) ==
    IF k = 0 THEN {RefHeader}
    ELSE LET H == HeadersWithin(k - 1)
         IN  H \cup UNION { { [h EXCEPT ![f] = v] : v \in FieldValues[f] } :
                            h \in H, f \in HeaderFields }

HeaderFiles == HeadersWithin(MaxDeviations)

\* byte i (1-based) of the raw files: samples -100, 50, 0, 32767, ... as
\* little-endian int16
FilePattern == <<156, 255, 50, 0, 0, 0, 255, 127>>

FileByte(i) == FilePattern[((i - 1) % Len(FilePattern)) + 1]

\* a second content: samples 50, 32767, -32768, -100
FilePattern2 == <<50, 0, 255, 127, 0, 128, 156, 255>>

FileByte2(i) == FilePattern2[((i - 1) % Len(FilePattern2)) + 1]

\* a raw file of 16 zero bytes: a 2 x 2 x 2 volume of zero samples
ZeroFile == [status |-> "ok", bytes |-> [i \in 1..16 |-> 0]]

RawFiles ==
    { [status |-> "ok", bytes |-> [i \in 1..n |-> FileByte(i)]] : n \in 0..MaxFileLen }
    \cup { [status |-> "ok", bytes |-> [i \in 1..n |-> FileByte2(i)]] : n \in 1..MaxFileLen }
    \cup {ZeroFile}
    \cup { [status |-> s, bytes |-> <<>>] : s \in {"missing", "unreadable"} }


-----------------------------------------------------------------------------
(* Header structs *)

\* FVMNRRDHeaderInfo{} / FVMNRRDHeader(): the default-constructed header
EmptyHeader ==
    [ SizeX |-> 0, SizeY |-> 0, SizeZ |-> 0,
      DataFileName |-> <<>>, Type |-> <<>>, Encoding |-> <<>>, Endian |-> <<>>,
      RawFilePath |-> <<>>, BytesPerVoxel |-> 2, bLittleEndian |-> TRUE,
      MinValue |-> 0, MaxValue |-> 0,
      Spacing |-> [X |-> 1000, Y |-> 1000, Z |-> 1000] ]

\* result of a parse that returns false
ParseFail(kind) == [ok |-> FALSE, Error |-> kind, Header |-> EmptyHeader]

\* FString::ParseIntoArrayLines(Lines): empty lines are culled by default
ParseIntoArrayLines(lines) == SelectSeq(lines, LAMBDA l : Len(l) > 0)

-----------------------------------------------------------------------------
(* Revision "Build": TBRaymarchProject.Build.cs *)

\* ParseIntList: a part that does not parse is skipped
RECURSIVE IntListSkip(_)
IntListSkip(parts) ==
    IF Len(parts) = 0 THEN <<>>
    ELSE LET r == LexTryParseString(parts[1])
         IN  (IF r.ok THEN <<r.Value>> ELSE <<>>) \o IntListSkip(Tail(parts))

ParseIntList_Build(InString) ==
    LET vals == IntListSkip(ParseIntoArrayWS(InString))
    IN  [ok |-> Len(vals) > 0, OutValues |-> vals]

\* the Z Y X order of the exporter's sizes line
SizesToHeader_Build(hdr, S) ==
    [hdr EXCEPT !.SizeZ = S[1], !.SizeY = S[2], !.SizeX = S[3]]

\* one pass of the loop over Lines; st = [Header, Error]
ParseLine_Build(st, Line) ==
    IF StartsWith(Line, Txt_hash) \/ ~Contains(Line, ":") THEN st
    ELSE LET kv    == Split(Line, ":")
             Key   == TrimStartAndEnd(kv.Left)
             Value == TrimStartAndEnd(kv.Right)
         IN  IF Equals(Key, Txt_sizes)
             THEN LET r == ParseIntList_Build(Value)
                  IN  IF ~r.ok \/ Len(r.OutValues) # 3
                      THEN [st EXCEPT !.Error = "InvalidSizes"]
                      ELSE [st EXCEPT !.Header = SizesToHeader_Build(st.Header, r.OutValues)]
             ELSE IF Equals(Key, Txt_type)
             THEN [st EXCEPT !.Header.Type = Value]
             ELSE IF Equals(Key, Txt_encoding)
             THEN [st EXCEPT !.Header.Encoding = Value]
             ELSE IF Equals(Key, Txt_endian)
             THEN [st EXCEPT !.Header.Endian = Value]
             ELSE IF Equals(Key, Txt_datafile)
             THEN [st EXCEPT !.Header.DataFileName = Value]
             ELSE st

RECURSIVE ParseLoop_Build(_, _)
ParseLoop_Build(st, lines) ==
    IF Len(lines) = 0 \/ st.Error # "" THEN st
    ELSE ParseLoop_Build(ParseLine_Build(st, lines[1]), Tail(lines))

ParseNRRDHeader_Build(h) ==
    IF ~h.readable THEN ParseFail("ReadFailure")
    ELSE LET Lines == ParseIntoArrayLines(HeaderLines(h))
         IN  IF Len(Lines) = 0 \/ ~StartsWith(Lines[1], Txt_NRRD)
             THEN ParseFail("InvalidMagic")
             ELSE LET st == ParseLoop_Build([Header |-> EmptyHeader, Error |-> ""], Lines)
                  IN  IF st.Error # "" THEN ParseFail(st.Error)
                      ELSE IF IsEmpty(st.Header.DataFileName)
                      THEN ParseFail("MissingDataFile")
                      ELSE [ok |-> TRUE, Error |-> "", Header |-> st.Header]

-----------------------------------------------------------------------------
(* Revision "CppA": VMVolumeManager.cpp, lines 1-303 *)

\* ParseIntList: a part that does not parse makes the list invalid
RECURSIVE IntListStrict(_)
IntListStrict(parts) ==
    IF Len(parts) = 0 THEN [ok |-> TRUE, OutValues |-> <<>>]
    ELSE LET r == LexTryParseString(parts[1])
         IN  IF ~r.ok THEN [ok |-> FALSE, OutValues |-> <<>>]
             ELSE LET rest == IntListStrict(Tail(parts))
                  IN  [ok |-> rest.ok, OutValues |-> <<r.Value>> \o rest.OutValues]

ParseIntList_CppA(InString) ==
    LET r == IntListStrict(ParseIntoArrayWS(InString))
    IN  [ok |-> r.ok /\ Len(r.OutValues) > 0, OutValues |-> r.OutValues]

SizesToHeader_CppA(hdr, Sizes) ==
    [hdr EXCEPT !.SizeZ = Sizes[1], !.SizeY = Sizes[2], !.SizeX = Sizes[3]]

ParseLine_CppA(st, Line) ==
    IF IsEmpty(Line) \/ StartsWith(Line, Txt_hash) THEN st
    ELSE LET kv == Split(Line, ":")
         IN  IF ~kv.ok THEN st
             ELSE LET Key   == TrimStartAndEnd(kv.Left)
                      Value == TrimStartAndEnd(kv.Right)
                  IN  IF EqualsIgnoreCase(Key, Txt_sizes)
                      THEN LET r == ParseIntList_CppA(Value)
                           IN  IF ~r.ok \/ Len(r.OutValues) # 3
                               THEN [st EXCEPT !.Error = "InvalidSizes"]
                               ELSE [st EXCEPT !.Header = SizesToHeader_CppA(st.Header, r.OutValues)]
                      ELSE IF EqualsIgnoreCase(Key, Txt_type)
                      THEN [st EXCEPT !.Header.Type = Value]
                      ELSE IF EqualsIgnoreCase(Key, Txt_encoding)
                      THEN [st EXCEPT !.Header.Encoding = Value]
                      ELSE IF EqualsIgnoreCase(Key, Txt_endian)
                      THEN [st EXCEPT !.Header.Endian = Value]
                      ELSE IF EqualsIgnoreCase(Key, Txt_datafile)
                      THEN [st EXCEPT !.Header.DataFileName = Value]
                      ELSE st

RECURSIVE ParseLoop_CppA(_, _)
ParseLoop_CppA(st, lines) ==
    IF Len(lines) = 0 \/ st.Error # "" THEN st
    ELSE ParseLoop_CppA(ParseLine_CppA(st, lines[1]), Tail(lines))

\* the checks after the loop, in their order
Validate_CppA(hdr) ==
    IF hdr.SizeX <= 0 \/ hdr.SizeY <= 0 \/ hdr.SizeZ <= 0 THEN "InvalidSizes"
    ELSE IF IsEmpty(hdr.DataFileName) THEN "MissingDataFile"
    ELSE IF IsEmpty(hdr.Type) THEN "MissingType"
    ELSE IF IsEmpty(hdr.Encoding) THEN "MissingEncoding"
    ELSE ""

ParseNRRDHeader_CppA(h) ==
    IF ~h.readable THEN ParseFail("ReadFailure")
    ELSE LET Lines == ParseIntoArrayLines(HeaderLines(h))
         IN  IF Len(Lines) = 0 \/ ~StartsWith(Lines[1], Txt_NRRD)
             THEN ParseFail("InvalidMagic")
             ELSE LET st == ParseLoop_CppA([Header |-> EmptyHeader, Error |-> ""], Tail(Lines))
                      e  == IF st.Error # "" THEN st.Error ELSE Validate_CppA(st.Header)
                  IN  IF e # "" THEN ParseFail(e)
                      ELSE [ok |-> TRUE, Error |-> "", Header |-> st.Header]


-----------------------------------------------------------------------------
(* Revision "CppB": VMVolumeManager.cpp, lines 305-760 *)

\* "First line must be NRRD magic": the trimmed first line starts with NRRD
MagicOk_CppB(Lines) == StartsWith(TrimStartAndEnd(Lines[1]), Txt_NRRD)

\* int32 SizesTokens[3] from the first three tokens of the sizes line
SizesTokens_CppB(Tokens) == <<Atoi(Tokens[1]), Atoi(Tokens[2]), Atoi(Tokens[3])>>

\* the assignment without the remap: sizes kept in file order (told apart by C1)
SizesToHeader_CppB_FileOrder(hdr, SizesTokens) ==
    [hdr EXCEPT !.SizeX = SizesTokens[1], !.SizeY = SizesTokens[2], !.SizeZ = SizesTokens[3]]

\* "Map from NRRD order (Z Y X) to Unreal VolumeTexture order (X Y Z)"
SizesToHeader_CppB(hdr, SizesTokens) ==
    [hdr EXCEPT !.SizeZ = SizesTokens[1], !.SizeY = SizesTokens[2], !.SizeX = SizesTokens[3]]

\* the spacings kept in file order (told apart by C26)
SpacingsToHeader_CppB_FileOrder(hdr, Tokens) ==
    [hdr EXCEPT !.Spacing = [X |-> Atof(Tokens[1]), Y |-> Atof(Tokens[2]), Z |-> Atof(Tokens[3])]]

\* the spacings line: Spacing.X, .Y, .Z from tokens 2, 1, 0
SpacingsToHeader_CppB(hdr, Tokens) ==
    [hdr EXCEPT !.Spacing = [X |-> Atof(Tokens[3]), Y |-> Atof(Tokens[2]), Z |-> Atof(Tokens[1])]]

\* one pass of the loop over Lines; st = [Header, Dim, SizesTokens, Error]
ParseLine_CppB(st, RawLine) ==
    LET Line == TrimStartAndEnd(RawLine)
    IN  IF IsEmpty(Line) \/ StartsWith(Line, Txt_hash) THEN st
        ELSE IF StartsWith(Line, Txt_dimension \o Txt_colon)
        THEN [st EXCEPT !.Dim = Atoi(TrimStartAndEnd(Mid(Line, 10)))]
        ELSE IF StartsWith(Line, Txt_sizes \o Txt_colon)
        THEN LET Tokens == ParseIntoArray(TrimStartAndEnd(Mid(Line, 6)))
             IN  IF Len(Tokens) < 3
                 THEN [st EXCEPT !.Error = "InvalidSizes"]
                 ELSE [st EXCEPT !.SizesTokens = SizesTokens_CppB(Tokens)]
        ELSE IF StartsWith(Line, Txt_type \o Txt_colon)
        THEN [st EXCEPT !.Header.Type = TrimStartAndEnd(Mid(Line, 5))]
        ELSE IF StartsWith(Line, Txt_encoding \o Txt_colon)
        THEN [st EXCEPT !.Header.Encoding = TrimStartAndEnd(Mid(Line, 9))]
        ELSE IF StartsWith(Line, Txt_endian \o Txt_colon)
        THEN [st EXCEPT !.Header.Endian = TrimStartAndEnd(Mid(Line, 7))]
        ELSE IF StartsWith(Line, Txt_datafile \o Txt_colon)
        THEN [st EXCEPT !.Header.DataFileName = TrimStartAndEnd(Mid(Line, 10))]
        ELSE IF StartsWith(Line, Txt_spacings \o Txt_colon)
        THEN LET Tokens == ParseIntoArray(TrimStartAndEnd(Mid(Line, 9)))
             IN  IF Len(Tokens) >= 3
                 THEN [st EXCEPT !.Header = SpacingsToHeader_CppB(st.Header, Tokens)]
                 ELSE st
        ELSE st

RECURSIVE ParseLoop_CppB(_, _)
ParseLoop_CppB(st, lines) ==
    IF Len(lines) = 0 \/ st.Error # "" THEN st
    ELSE ParseLoop_CppB(ParseLine_CppB(st, lines[1]), Tail(lines))

\* the dimension check after the loop: int32 Dim = 0 unless a line set it
DimensionCheck_CppB(Dim) == Dim = 3

\* an encoding check that lets every value through (told apart by C8)
EncodingCheck_CppB_Any(hdr) == TRUE

\* the encoding check after the loop
EncodingCheck_CppB(hdr) == EqualsIgnoreCase(hdr.Encoding, Txt_raw)

\* an endian check that lets every value through (told apart by C7)
EndianCheck_CppB_Any(hdr) == TRUE

\* an endian check that lets only a header without endian line through
\* (told apart by C24)
EndianCheck_CppB_AbsentOnly(hdr) == IsEmpty(hdr.Endian)

\* the endian check after the loop: only little (or no endian line) passes
EndianCheck_CppB(hdr) == IsEmpty(hdr.Endian) \/ EqualsIgnoreCase(hdr.Endian, Txt_little)

\* the checks after the loop with the data file looked at first (told apart by C14)
Validate_CppB_DataFileFirst(st) ==
    IF IsEmpty(st.Header.DataFileName) THEN "MissingDataFile"
    ELSE IF ~DimensionCheck_CppB(st.Dim) THEN "UnsupportedDimension"
    ELSE IF st.SizesTokens[1] <= 0 \/ st.SizesTokens[2] <= 0 \/ st.SizesTokens[3] <= 0
    THEN "InvalidSizes"
    ELSE IF ~EncodingCheck_CppB(st.Header) THEN "UnsupportedEncoding"
    ELSE IF ~EndianCheck_CppB(st.Header) THEN "UnsupportedEndian"
    ELSE ""

\* the checks after the loop, in their order; "" when all pass
Validate_CppB(st) ==
    IF ~DimensionCheck_CppB(st.Dim) THEN "UnsupportedDimension"
    ELSE IF st.SizesTokens[1] <= 0 \/ st.SizesTokens[2] <= 0 \/ st.SizesTokens[3] <= 0
    THEN "InvalidSizes"
    ELSE IF ~EncodingCheck_CppB(st.Header) THEN "UnsupportedEncoding"
    ELSE IF ~EndianCheck_CppB(st.Header) THEN "UnsupportedEndian"
    ELSE IF IsEmpty(st.Header.DataFileName) THEN "MissingDataFile"
    ELSE ""

ParseNRRDHeader_CppB(h) ==
    IF ~h.readable THEN ParseFail("ReadFailure")
    ELSE LET Lines == HeaderLines(h)
         IN  IF Len(Lines) = 0 THEN ParseFail("EmptyHeaderFile")
             ELSE IF ~MagicOk_CppB(Lines) THEN ParseFail("InvalidMagic")
             ELSE LET st == ParseLoop_CppB([Header |-> EmptyHeader, Dim |-> 0,
                                            SizesTokens |-> <<0, 0, 0>>, Error |-> ""], Lines)
                      e  == IF st.Error # "" THEN st.Error ELSE Validate_CppB(st)
                  IN  IF e # "" THEN ParseFail(e)
                      ELSE [ok |-> TRUE, Error |-> "",
                            Header |-> SizesToHeader_CppB(st.Header, st.SizesTokens)]

-----------------------------------------------------------------------------
(* Revision "Part0": src/unnamed/part_000 *)

SizesToHeader_Part0(hdr, Sizes) ==
    [hdr EXCEPT !.SizeZ = Sizes[1], !.SizeY = Sizes[2], !.SizeX = Sizes[3]]

\* one pass of the loop over Lines; st = [Sizes, DataFileRel, bLittleEndian, Error]
ParseLine_Part0(st, RawLine) ==
    LET Line == TrimStartAndEnd(RawLine)
    IN  IF IsEmpty(Line) \/ StartsWith(Line, Txt_hash) THEN st
        ELSE IF StartsWith(Line, Txt_type \o Txt_colon)
        THEN st     \* a type other than short is logged as a warning
        ELSE IF StartsWith(Line, Txt_dimension \o Txt_colon)
        THEN IF Atoi(TrimStartAndEnd(Mid(Line, 10))) # 3
             THEN [st EXCEPT !.Error = "UnsupportedDimension"]
             ELSE st
        ELSE IF StartsWith(Line, Txt_sizes \o Txt_colon)
        THEN LET Tokens == ParseIntoArray(TrimStartAndEnd(Mid(Line, 6)))
             IN  IF Len(Tokens) # 3
                 THEN [st EXCEPT !.Error = "InvalidSizes"]
                 ELSE [st EXCEPT !.Sizes = <<Atoi(Tokens[1]), Atoi(Tokens[2]), Atoi(Tokens[3])>>]
        ELSE IF StartsWith(Line, Txt_endian \o Txt_colon)
        THEN [st EXCEPT !.bLittleEndian =
                            ~EqualsIgnoreCase(TrimStartAndEnd(Mid(Line, 7)), Txt_big)]
        ELSE IF StartsWith(Line, Txt_datafile \o Txt_colon)
        THEN [st EXCEPT !.DataFileRel = TrimStartAndEnd(Mid(Line, 10))]
        ELSE st

RECURSIVE ParseLoop_Part0(_, _)
ParseLoop_Part0(st, lines) ==
    IF Len(lines) = 0 \/ st.Error # "" THEN st
    ELSE ParseLoop_Part0(ParseLine_Part0(st, lines[1]), Tail(lines))

ParseNRRDHeader_Part0(h) ==
    IF ~h.readable THEN ParseFail("ReadFailure")
    ELSE LET Lines == HeaderLines(h)
         IN  IF Len(Lines) = 0 \/ ~StartsWith(Lines[1], Txt_NRRD)
             THEN ParseFail("InvalidMagic")
             ELSE LET st == ParseLoop_Part0([Sizes |-> <<0, 0, 0>>, DataFileRel |-> <<>>,
                                             bLittleEndian |-> TRUE, Error |-> ""], Lines)
                  IN  IF st.Error # "" THEN ParseFail(st.Error)
                      ELSE IF st.Sizes[1] <= 0 \/ st.Sizes[2] <= 0 \/ st.Sizes[3] <= 0
                      THEN ParseFail("InvalidSizes")
                      ELSE IF IsEmpty(st.DataFileRel) THEN ParseFail("MissingDataFile")
                      ELSE [ok |-> TRUE, Error |-> "",
                            Header |-> [SizesToHeader_Part0(EmptyHeader, st.Sizes) EXCEPT
                                            !.BytesPerVoxel = 2,
                                            !.bLittleEndian = st.bLittleEndian,
                                            !.RawFilePath = st.DataFileRel]]


-----------------------------------------------------------------------------
(* Raw data, min/max and texture *)

\* the only file of the raw-data directory is v.raw
FileExists(path, disk) == path = Txt_vraw /\ disk.status # "missing"

\* a read that stops one byte before the end of the file (told apart by C23)
LoadFileToArray_Short(path, disk) ==
    IF FileExists(path, disk) /\ disk.status = "ok"
    THEN [ok |-> TRUE, bytes |-> SubSeq(disk.bytes, 1, Len(disk.bytes) - 1)]
    ELSE [ok |-> FALSE, bytes |-> <<>>]

\* FFileHelper::LoadFileToArray: [ok, bytes]
LoadFileToArray(path, disk) ==
    IF FileExists(path, disk) /\ disk.status = "ok"
    THEN [ok |-> TRUE, bytes |-> disk.bytes]
    ELSE [ok |-> FALSE, bytes |-> <<>>]

Zeros(n) == [i \in 1..n |-> 0]

Min2(a, b) == IF a < b THEN a ELSE b

\* 64-bit products. The integers of the checker are narrower than int64,
\* so a product is formed on base-256 digits, least digit first.
Abs(n) == IF n < 0 THEN 0 - n ELSE n

\* the k low digits of n >= 0
RECURSIVE Digits(_, _)
Digits(n, k) == IF k = 0 THEN <<>> ELSE <<n % 256>> \o Digits(n \div 256, k - 1)

\* the digits d times m >= 0 plus the carry c, cut to Len(d) digits
RECURSIVE MulDigits(_, _, _)
MulDigits(d, m, c) ==
    IF Len(d) = 0 THEN <<>>
    ELSE LET t == d[1] * m + c
         IN  <<t % 256>> \o MulDigits(Tail(d), m, t \div 256)

\* the magnitude of the product of the factors f, on k digits
RECURSIVE ProductDigits(_, _)
ProductDigits(f, k) ==
    IF Len(f) = 0 THEN Digits(1, k)
    ELSE MulDigits(ProductDigits(Tail(f), k), Abs(f[1]), 0)

\* the number the digits d stand for
RECURSIVE DigitsValue(_)
DigitsValue(d) == IF Len(d) = 0 THEN 0 ELSE d[1] + 256 * DigitsValue(Tail(d))

\* the product of the factors f is below zero
NegativeProduct(f) ==
    /\ \A i \in 1..Len(f) : f[i] # 0
    /\ Cardinality({i \in 1..Len(f) : f[i] < 0}) % 2 = 1

\* the int64 product int64(f[1]) * f[2] * ...: the 8 low digits of the
\* product are what the 64-bit multiply of the build leaves (the result
\* modulo 2^64)
Int64Product(f) ==
    LET low == ProductDigits(f, 8)
    IN  IF NegativeProduct(f) THEN 0 - DigitsValue(low) ELSE DigitsValue(low)

\* int64 ExpectedBytes = int64(SizeX) * SizeY * SizeZ * 2
ExpectedBytes(hdr) == Int64Product(<<hdr.SizeX, hdr.SizeY, hdr.SizeZ, 2>>)

\* LoadRawData of revision Build: [ok, Error, bytes]
LoadRawData_Build(hdr, disk) ==
    IF ~FileExists(hdr.DataFileName, disk) THEN [ok |-> FALSE, Error |-> "NotFound", bytes |-> <<>>]
    ELSE LET r == LoadFileToArray(hdr.DataFileName, disk)
         IN  IF ~r.ok THEN [ok |-> FALSE, Error |-> "ReadFailure", bytes |-> <<>>]
             ELSE [ok |-> TRUE, Error |-> "", bytes |-> r.bytes]

\* the type check of LoadRawData, revision CppA
TypeCheck_CppA(hdr) ==
    EqualsIgnoreCase(hdr.Type, Txt_short) \/ EqualsIgnoreCase(hdr.Type, Txt_int16)

\* LoadRawData of revision CppA: encoding and type are checked first; a
\* length mismatch is only logged
LoadRawData_CppA(hdr, disk) ==
    IF ~EqualsIgnoreCase(hdr.Encoding, Txt_raw)
    THEN [ok |-> FALSE, Error |-> "UnsupportedEncoding", bytes |-> <<>>]
    ELSE IF ~TypeCheck_CppA(hdr)
    THEN [ok |-> FALSE, Error |-> "UnsupportedType", bytes |-> <<>>]
    ELSE IF ~FileExists(hdr.DataFileName, disk)
    THEN [ok |-> FALSE, Error |-> "NotFound", bytes |-> <<>>]
    ELSE LET r == LoadFileToArray(hdr.DataFileName, disk)
         IN  IF ~r.ok THEN [ok |-> FALSE, Error |-> "ReadFailure", bytes |-> <<>>]
             ELSE [ok |-> TRUE, Error |-> "", bytes |-> r.bytes]

\* LoadRawData of revision CppB: the file's bytes as they are
LoadRawData_CppB(hdr, disk) ==
    IF ~FileExists(hdr.DataFileName, disk) THEN [ok |-> FALSE, Error |-> "NotFound", bytes |-> <<>>]
    ELSE LET r == LoadFileToArray(hdr.DataFileName, disk)
         IN  IF ~r.ok THEN [ok |-> FALSE, Error |-> "ReadFailure", bytes |-> <<>>]
             ELSE [ok |-> TRUE, Error |-> "", bytes |-> r.bytes]

\* sample i read as an unsigned 16-bit value (told apart by C16)
Int16At_Unsigned(Bytes, i) == Bytes[2 * i + 1] + 256 * Bytes[2 * i + 2]

\* sample i (0-based) of reinterpret_cast<const int16*>(Bytes.GetData())
Int16At(Bytes, i) ==
    LET u == Bytes[2 * i + 1] + 256 * Bytes[2 * i + 2]
    IN  IF u >= 32768 THEN u - 65536 ELSE u

\* the scan "for (i = 1; i < NumSamples; ++i)" from sample i on
RECURSIVE MinMaxScan(_, _, _, _, _)
MinMaxScan(Bytes, i, NumSamples, LocalMin, LocalMax) ==
    IF i >= NumSamples THEN [Min |-> LocalMin, Max |-> LocalMax]
    ELSE LET V == Int16At(Bytes, i)
         IN  MinMaxScan(Bytes, i + 1, NumSamples,
                        IF V < LocalMin THEN V ELSE LocalMin,
                        IF V > LocalMax THEN V ELSE LocalMax)

\* the scan started from the extreme values instead of (0, 0) and the first
\* sample (told apart by C17)
ComputeVolumeMinMaxInt16_FromExtremes(Bytes) ==
    MinMaxScan(Bytes, 0, Len(Bytes) \div 2, 32767, 0 - 32768)

\* ComputeVolumeMinMaxInt16 (revision CppB): [Min, Max]
ComputeVolumeMinMaxInt16(Bytes) ==
    IF Len(Bytes) < 2 THEN [Min |-> 0, Max |-> 0]
    ELSE MinMaxScan(Bytes, 1, Len(Bytes) \div 2, Int16At(Bytes, 0), Int16At(Bytes, 0))

\* "Clamp or pad to expected bytes" (revision Part0): SetNumZeroed / SetNum
Reconcile_Part0(bytes, Expected) ==
    IF Len(bytes) < Expected THEN bytes \o Zeros(Expected - Len(bytes))
    ELSE IF Len(bytes) > Expected THEN SubSeq(bytes, 1, Expected)
    ELSE bytes

\* LoadRawDataAndComputeMinMax (revision Part0): [ok, Error, bytes, Header]
LoadRawDataAndComputeMinMax_Part0(hdr, disk) ==
    IF ~FileExists(hdr.RawFilePath, disk)
    THEN [ok |-> FALSE, Error |-> "NotFound", bytes |-> <<>>, Header |-> hdr]
    ELSE LET r == LoadFileToArray(hdr.RawFilePath, disk)
             Expected == Int64Product(<<hdr.SizeX, hdr.SizeY, hdr.SizeZ, hdr.BytesPerVoxel>>)
         IN  IF ~r.ok
             THEN [ok |-> FALSE, Error |-> "ReadFailure", bytes |-> <<>>, Header |-> hdr]
             ELSE LET OutRawBytes == Reconcile_Part0(r.bytes, Expected)
                      NumSamples  == Len(OutRawBytes) \div 2
                  IN  IF Len(OutRawBytes) <= 0 \/ NumSamples <= 0
                      THEN [ok |-> FALSE, Error |-> "EmptyRaw", bytes |-> OutRawBytes,
                            Header |-> hdr]
                      ELSE LET mm == MinMaxScan(OutRawBytes, 1, NumSamples,
                                                Int16At(OutRawBytes, 0), Int16At(OutRawBytes, 0))
                           IN  [ok |-> TRUE, Error |-> "", bytes |-> OutRawBytes,
                                Header |-> [hdr EXCEPT !.MinValue = mm.Min, !.MaxValue = mm.Max]]

NoTex == [made |-> FALSE, bytes |-> <<>>, CopyBytes |-> 0, ExpectedBytes |-> 0]

\* the copy into the locked mip: CopyBytes bytes of Bytes, then zero fill
MipCopy(hdr, Bytes) ==
    LET Expected == ExpectedBytes(hdr)
        Copy     == Min2(Expected, Len(Bytes))
    IN  [ made |-> TRUE,
          bytes |-> SubSeq(Bytes, 1, Copy) \o Zeros(Expected - Copy),
          CopyBytes |-> Copy,
          ExpectedBytes |-> Expected ]

\* CreateVolumeTextureFromRaw16, revision Build: no check of the dimensions
CreateVolumeTextureFromRaw16_Build(hdr, Bytes) == MipCopy(hdr, Bytes)

\* Memcpy(Dest, Bytes.GetData(), CopyBytes) with CopyBytes < 0: the count is
\* taken as a SIZE_T of nearly 2^64 and the copy runs off both arrays; the
\* call dies in the copy
MipCopyFault(hdr, Bytes) ==
    [ made |-> FALSE, bytes |-> <<>>,
      CopyBytes |-> Min2(ExpectedBytes(hdr), Len(Bytes)),
      ExpectedBytes |-> ExpectedBytes(hdr) ]

\* CreateVolumeTextureFromRaw16, revisions CppA and CppB: nullptr for
\* non-positive dimensions
CreateVolumeTextureFromRaw16_Cpp(hdr, Bytes) ==
    IF hdr.SizeX <= 0 \/ hdr.SizeY <= 0 \/ hdr.SizeZ <= 0 THEN NoTex
    ELSE MipCopy(hdr, Bytes)

\* CreateVolumeTextureFromRaw, revision Part0: nullptr also for empty data
CreateVolumeTextureFromRaw_Part0(hdr, Bytes) ==
    IF hdr.SizeX <= 0 \/ hdr.SizeY <= 0 \/ hdr.SizeZ <= 0 THEN NoTex
    ELSE IF Len(Bytes) <= 0 THEN NoTex
    ELSE MipCopy(hdr, Bytes)


-----------------------------------------------------------------------------
(* The decode call LoadNRRDIntensity, stage by stage *)

\* before the load stage looks at the disk nothing is known of the raw file
\* nullptr: no UVolumeTexture object
NullTexture == [obj |-> 0, tex |-> NoTex]

Calls == 1..MaxCalls

\* a call that has not been made yet
IdleCall ==
    [ pc |-> "idle", kind |-> "none", NrrdHeaderPath |-> <<>>, file |-> RefHeader,
      raw |-> [status |-> "missing", bytes |-> <<>>],
      Header |-> EmptyHeader, RawBytes |-> <<>>, MinVal |-> 0, MaxVal |-> 0,
      Tex |-> NullTexture, HeaderInfo |-> EmptyHeader ]

\* AVMVolumeManager(): LoadedIntensityTexture = nullptr; LastHeaderInfo default
ActorInit ==
    /\ LoadedIntensityTexture = NullTexture
    /\ LastHeaderInfo = EmptyHeader
    /\ call = [c \in Calls |-> IdleCall]

UnopenedFile == [status |-> "unopened", bytes |-> <<>>]

Variants == {"Build", "CppA", "CppB", "Part0"}

InitOf(V) ==
    /\ variant \in V
    /\ input \in HeaderFiles
    /\ rawFile = UnopenedFile
    /\ pc = "start"
    /\ Header = EmptyHeader
    /\ RawBytes = <<>>
    /\ MinVal = 0
    /\ MaxVal = 0
    /\ Tex = NoTex
    /\ Error = ""
    /\ stage = "none"
    /\ ActorInit

\* ParseNRRDHeader of the running revision
ParseNRRDHeader(v, h) ==
    CASE v = "Build" -> ParseNRRDHeader_Build(h)
      [] v = "CppA"  -> ParseNRRDHeader_CppA(h)
      [] v = "CppB"  -> ParseNRRDHeader_CppB(h)
      [] v = "Part0" -> ParseNRRDHeader_Part0(h)

\* LoadRawData of the running revision
LoadRawData(v, hdr, disk) ==
    CASE v = "Build" -> LoadRawData_Build(hdr, disk)
      [] v = "CppA"  -> LoadRawData_CppA(hdr, disk)
      [] v = "CppB"  -> LoadRawData_CppB(hdr, disk)

\* CreateVolumeTextureFromRaw16 of the running revision
CreateVolumeTexture(v, hdr, Bytes) ==
    CASE v = "Build" -> CreateVolumeTextureFromRaw16_Build(hdr, Bytes)
      [] v = "CppA"  -> CreateVolumeTextureFromRaw16_Cpp(hdr, Bytes)
      [] v = "CppB"  -> CreateVolumeTextureFromRaw16_Cpp(hdr, Bytes)
      [] v = "Part0" -> CreateVolumeTextureFromRaw_Part0(hdr, Bytes)

\* what a call of CreateVolumeTextureFromRaw16 can come to: the copy of
\* revision Build with a negative count is undefined, it faults or it goes
\* through unnoticed
TextureOutcomes(v, hdr, Bytes) ==
    IF v = "Build" /\ Min2(ExpectedBytes(hdr), Len(Bytes)) < 0
    THEN {MipCopyFault(hdr, Bytes), CreateVolumeTexture(v, hdr, Bytes)}
    ELSE {CreateVolumeTexture(v, hdr, Bytes)}

\* if (!ParseNRRDHeader(...)) return nullptr;
ParseStage ==
    /\ pc = "start"
    /\ LET r == ParseNRRDHeader(variant, input)
       IN  /\ pc' = IF r.ok THEN "parsed" ELSE "failed"
           /\ Header' = r.Header
           /\ Error' = r.Error
    /\ stage' = "parse"
    /\ UNCHANGED <<variant, input, rawFile, RawBytes, MinVal, MaxVal, Tex>>
    /\ UNCHANGED actorVars

\* the load run without the return on a failed parse (told apart by C18)
LoadStage_AfterFailedParse ==
    /\ pc \in {"parsed", "failed"}
    /\ stage = "parse"
    /\ variant # "Part0"
    /\ \E f \in RawFiles :
          LET r == LoadRawData(variant, Header, f)
          IN  /\ rawFile' = f
              /\ pc' = IF r.ok THEN "loaded" ELSE "failed"
              /\ RawBytes' = r.bytes
              /\ Error' = r.Error
    /\ stage' = "load"
    /\ UNCHANGED <<variant, input, Header, MinVal, MaxVal, Tex>>
    /\ UNCHANGED actorVars

\* if (!LoadRawData(...)) return nullptr;      (revisions Build, CppA, CppB)
LoadStage ==
    /\ pc = "parsed"
    /\ variant # "Part0"
    /\ \E f \in RawFiles :
          LET r == LoadRawData(variant, Header, f)
          IN  /\ rawFile' = f
              /\ pc' = IF r.ok THEN "loaded" ELSE "failed"
              /\ RawBytes' = r.bytes
              /\ Error' = r.Error
    /\ stage' = "load"
    /\ UNCHANGED <<variant, input, Header, MinVal, MaxVal, Tex>>
    /\ UNCHANGED actorVars

\* if (!LoadRawDataAndComputeMinMax(Header, RawBytes)) return;   (revision Part0)
LoadStage_Part0 ==
    /\ pc = "parsed"
    /\ variant = "Part0"
    /\ \E f \in RawFiles :
          LET r == LoadRawDataAndComputeMinMax_Part0(Header, f)
          IN  /\ rawFile' = f
              /\ pc' = IF r.ok THEN "stats" ELSE "failed"
              /\ RawBytes' = r.bytes
              /\ Header' = r.Header
              /\ Error' = r.Error
    /\ stage' = "load"
    /\ UNCHANGED <<variant, input, MinVal, MaxVal, Tex>>
    /\ UNCHANGED actorVars

\* ComputeVolumeMinMaxInt16(RawBytes, MinVal, MaxVal);          (revision CppB)
StatsStage ==
    /\ pc = "loaded"
    /\ variant = "CppB"
    /\ LET mm == ComputeVolumeMinMaxInt16(RawBytes)
       IN  /\ MinVal' = mm.Min
           /\ MaxVal' = mm.Max
    /\ pc' = "stats"
    /\ stage' = "stats"
    /\ UNCHANGED <<variant, input, rawFile, Header, RawBytes, Tex, Error>>
    /\ UNCHANGED actorVars

\* texture creation that takes the byte buffer over and leaves the caller's
\* array empty (told apart by C28)
TextureStage_Consuming ==
    /\ pc = IF variant \in {"Build", "CppA"} THEN "loaded" ELSE "stats"
    /\ \E t \in TextureOutcomes(variant, Header, RawBytes) :
           /\ Tex' = t
           /\ pc' = IF t.made THEN "done" ELSE "failed"
           /\ Error' = IF t.made THEN ""
                       ELSE IF t.CopyBytes < 0 THEN "AccessViolation" ELSE "TextureFailed"
    /\ stage' = "texture"
    /\ RawBytes' = <<>>
    /\ UNCHANGED <<variant, input, rawFile, Header, MinVal, MaxVal>>
    /\ UNCHANGED actorVars

\* CreateVolumeTextureFromRaw16(Header, RawBytes); nullptr ends the call
TextureStage ==
    /\ pc = IF variant \in {"Build", "CppA"} THEN "loaded" ELSE "stats"
    /\ \E t \in TextureOutcomes(variant, Header, RawBytes) :
           /\ Tex' = t
           /\ pc' = IF t.made THEN "done" ELSE "failed"
           /\ Error' = IF t.made THEN ""
                       ELSE IF t.CopyBytes < 0 THEN "AccessViolation" ELSE "TextureFailed"
    /\ stage' = "texture"
    /\ UNCHANGED <<variant, input, rawFile, Header, RawBytes, MinVal, MaxVal>>
    /\ UNCHANGED actorVars

Init == InitOf(Variants)

Next == ParseStage \/ LoadStage \/ LoadStage_Part0 \/ StatsStage \/ TextureStage

Spec == Init /\ [][Next]_vars

\* revision CppB alone
InitCppB == InitOf({"CppB"})

NextCppB == ParseStage \/ LoadStage \/ StatsStage \/ TextureStage

SpecCppB == InitCppB /\ [][NextCppB]_vars

\* the two revisions of VMVolumeManager.cpp
InitCpp == InitOf({"CppA", "CppB"})

SpecCpp == InitCpp /\ [][NextCppB]_vars

\* revision Part0 alone
InitPart0 == InitOf({"Part0"})

NextPart0 == ParseStage \/ LoadStage_Part0 \/ TextureStage

SpecPart0 == InitPart0 /\ [][NextPart0]_vars

\* headers of volumes too large for 64 bits: each size is 2^21, so that
\* SizeX * SizeY * SizeZ * 2 = 2^64
WideSizes == <<IntText(2^21), IntText(2^21), IntText(2^21)>>

WideHeaderFiles ==
    HeadersWithin(1) \cup { [h EXCEPT !.sizes = <<WideSizes>>] : h \in HeadersWithin(1) }

\* the decode of every revision run on the wide headers too
InitWide ==
    /\ variant \in Variants
    /\ input \in WideHeaderFiles
    /\ rawFile = UnopenedFile
    /\ pc = "start"
    /\ Header = EmptyHeader
    /\ RawBytes = <<>>
    /\ MinVal = 0
    /\ MaxVal = 0
    /\ Tex = NoTex
    /\ Error = ""
    /\ stage = "none"
    /\ ActorInit

SpecWide == InitWide /\ [][Next]_vars

-----------------------------------------------------------------------------
(* The actor: BeginPlay and LoadAndApplyNRRD (revision CppB) *)

Txt_nhdr == <<"p", ".", "n", "h", "d", "r">>

\* the header files the actor is pointed at: two that decode to different
\* volumes and one that does not parse
CallHeaders ==
    { RefHeader,
      [RefHeader EXCEPT !.sizes = << <<IntText(1), IntText(1), IntText(1)>> >>],
      [RefHeader EXCEPT !.encoding = <<Txt_gzip>>] }

\* the raw file next to the header: present or missing
CallRawFiles ==
    { [status |-> "ok", bytes |-> [i \in 1..4 |-> FileByte(i)]],
      [status |-> "missing", bytes |-> <<>>] }

\* the caller enters BeginPlay (first call only) or LoadAndApplyNRRD with
\* NrrdHeaderPath set or empty; BeginPlay does nothing for an empty path
Call_Begin(c) ==
    /\ call[c].pc = "idle"
    /\ \E k \in (IF c = 1 THEN {"BeginPlay", "LoadAndApplyNRRD"} ELSE {"LoadAndApplyNRRD"}) :
          \/ call' = [call EXCEPT ![c].kind = k, ![c].NrrdHeaderPath = <<>>,
                                   ![c].pc = IF k = "BeginPlay" THEN "returned" ELSE "start"]
          \/ \E h \in CallHeaders, f \in CallRawFiles :
                call' = [call EXCEPT ![c].kind = k, ![c].NrrdHeaderPath = Txt_nhdr,
                                     ![c].file = h, ![c].raw = f, ![c].pc = "start"]
    /\ UNCHANGED <<LoadedIntensityTexture, LastHeaderInfo>>
    /\ UNCHANGED decodeVars

\* LoadNRRDIntensity: the empty-path test and ParseNRRDHeader
Call_Parse(c) ==
    /\ call[c].pc = "start"
    /\ IF IsEmpty(call[c].NrrdHeaderPath)
       THEN call' = [call EXCEPT ![c].pc = "nulltex"]
       ELSE LET r == ParseNRRDHeader_CppB(call[c].file)
            IN  call' = [call EXCEPT ![c].Header = r.Header,
                                     ![c].pc = IF r.ok THEN "parsed" ELSE "nulltex"]
    /\ UNCHANGED <<LoadedIntensityTexture, LastHeaderInfo>>
    /\ UNCHANGED decodeVars

\* LoadNRRDIntensity: LoadRawData
Call_Load(c) ==
    /\ call[c].pc = "parsed"
    /\ LET r == LoadRawData_CppB(call[c].Header, call[c].raw)
       IN  call' = [call EXCEPT ![c].RawBytes = r.bytes,
                                ![c].pc = IF r.ok THEN "loaded" ELSE "nulltex"]
    /\ UNCHANGED <<LoadedIntensityTexture, LastHeaderInfo>>
    /\ UNCHANGED decodeVars

\* LoadNRRDIntensity: ComputeVolumeMinMaxInt16
Call_Stats(c) ==
    /\ call[c].pc = "loaded"
    /\ LET mm == ComputeVolumeMinMaxInt16(call[c].RawBytes)
       IN  call' = [call EXCEPT ![c].MinVal = mm.Min, ![c].MaxVal = mm.Max, ![c].pc = "stats"]
    /\ UNCHANGED <<LoadedIntensityTexture, LastHeaderInfo>>
    /\ UNCHANGED decodeVars

\* LoadNRRDIntensity: CreateVolumeTextureFromRaw16, OutHeaderInfo = Header;
\* the new UVolumeTexture object is the call's own
Call_Texture(c) ==
    /\ call[c].pc = "stats"
    /\ LET t == CreateVolumeTextureFromRaw16_Cpp(call[c].Header, call[c].RawBytes)
       IN  call' = IF t.made
                   THEN [call EXCEPT ![c].Tex = [obj |-> c, tex |-> t],
                                     ![c].HeaderInfo = call[c].Header,
                                     ![c].pc = "gottex"]
                   ELSE [call EXCEPT ![c].pc = "nulltex"]
    /\ UNCHANGED <<LoadedIntensityTexture, LastHeaderInfo>>
    /\ UNCHANGED decodeVars

\* a failed call that clears the actor's fields (told apart by C19)
Call_ReturnFailed_Clearing(c) ==
    /\ call[c].pc = "nulltex"
    /\ call' = [call EXCEPT ![c].pc = "returned"]
    /\ LoadedIntensityTexture' = call[c].Tex
    /\ LastHeaderInfo' = call[c].HeaderInfo
    /\ UNCHANGED decodeVars

\* if (!Tex) return;   /   if (Tex) { ... } skipped
Call_ReturnFailed(c) ==
    /\ call[c].pc = "nulltex"
    /\ call' = [call EXCEPT ![c].pc = "returned"]
    /\ UNCHANGED <<LoadedIntensityTexture, LastHeaderInfo>>
    /\ UNCHANGED decodeVars

\* LoadedIntensityTexture = Tex;
Call_StoreTexture(c) ==
    /\ call[c].pc = "gottex"
    /\ LoadedIntensityTexture' = call[c].Tex
    /\ call' = [call EXCEPT ![c].pc = "storedtex"]
    /\ UNCHANGED LastHeaderInfo
    /\ UNCHANGED decodeVars

\* LastHeaderInfo = HeaderInfo;  and the call returns
Call_StoreHeader(c) ==
    /\ call[c].pc = "storedtex"
    /\ LastHeaderInfo' = call[c].HeaderInfo
    /\ call' = [call EXCEPT ![c].pc = "returned"]
    /\ UNCHANGED LoadedIntensityTexture
    /\ UNCHANGED decodeVars

\* one step of call c
CallStep(c) ==
    \/ Call_Begin(c)
    \/ Call_Parse(c)
    \/ Call_Load(c)
    \/ Call_Stats(c)
    \/ Call_Texture(c)
    \/ Call_ReturnFailed(c)
    \/ Call_StoreTexture(c)
    \/ Call_StoreHeader(c)

\* the actor with no decode followed stage by stage
InitActor == InitOf({"CppB"}) /\ input = RefHeader

\* calls made one after the other, as the game thread makes them
\* the game thread enters a call only when the call before has returned
Call_BeginInTurn(c) ==
    /\ IF c = 1 THEN TRUE ELSE call[c - 1].pc = "returned"
    /\ Call_Begin(c)

NextActor ==
    \E c \in Calls :
        \/ Call_BeginInTurn(c)
        \/ Call_Parse(c)
        \/ Call_Load(c)
        \/ Call_Stats(c)
        \/ Call_Texture(c)
        \/ Call_ReturnFailed(c)
        \/ Call_StoreTexture(c)
        \/ Call_StoreHeader(c)

SpecActor == InitActor /\ [][NextActor]_vars

\* calls made from several threads at once
NextConc == \E c \in Calls : CallStep(c)

SpecConc == InitActor /\ [][NextConc]_vars

TypeOK ==
    /\ variant \in Variants
    /\ pc \in {"start", "parsed", "loaded", "stats", "done", "failed"}
    /\ stage \in {"none", "parse", "load", "stats", "texture"}


-----------------------------------------------------------------------------
(* Properties *)

\* the header parse has run and returned true
ParseSucceeded == stage # "none" /\ ~(stage = "parse" /\ pc = "failed")

\* the load stage has run and returned true
LoadSucceeded == stage \in {"load", "stats", "texture"} /\ ~(stage = "load" /\ pc = "failed")

\* the expected byte length of the parsed header
ExpectedLen == Header.SizeX * Header.SizeY * Header.SizeZ * 2

\* s begins with the literal text p
HasLiteralPrefix(s, p) == Len(s) >= Len(p) /\ SubSeq(s, 1, Len(p)) = p

\* the bytes b with the two bytes of every 2-byte group exchanged
SwapPairs(b) ==
    [i \in 1..Len(b) |-> IF i % 2 = 1
                         THEN (IF i + 1 <= Len(b) THEN b[i + 1] ELSE b[i])
                         ELSE b[i - 1]]

\* file bytes f padded with zeros or truncated to n bytes
Reconciled(f, n) ==
    [i \in 1..n |-> IF i <= Len(f) THEN f[i] ELSE 0]

\* the decimal texts of the integers a sizes line is written with
IntegerTexts == [a \in (0 - 1)..(MaxSize + 1) |-> IntText(a)]

IsIntegerToken(t) == \E a \in DOMAIN IntegerTexts : IntegerTexts[a] = t

\* the integer a token is the decimal text of
IntegerOf(t) == CHOOSE a \in DOMAIN IntegerTexts : IntegerTexts[a] = t

\* C1. Axis-reversal law: after a successful parse of a header whose sizes
\* line holds the three integers (a0, a1, a2), the header has SizeX = a2,
\* SizeY = a1 and SizeZ = a0.
C1_AxisReversal ==
    (ParseSucceeded /\ Len(input.sizes) = 1 /\ Len(input.sizes[1]) = 3
       /\ \A i \in 1..3 : IsIntegerToken(input.sizes[1][i]))
        => /\ Header.SizeX = IntegerOf(input.sizes[1][3])
           /\ Header.SizeY = IntegerOf(input.sizes[1][2])
           /\ Header.SizeZ = IntegerOf(input.sizes[1][1])

C1_Witness ==
    /\ variant = "CppB"
    /\ pc = "parsed"
    /\ input.sizes = << <<IntText(1), IntText(2), IntText(2)>> >>
    /\ Header.SizeX = 2 /\ Header.SizeY = 2 /\ Header.SizeZ = 1

\* C2. After every successful load the buffer the load stage returned has
\* exactly SizeX * SizeY * SizeZ * 2 bytes, whatever the length of the file.
C2_LoadedLengthExact ==
    LoadSucceeded => Len(RawBytes) = ExpectedLen

\* C3. Padding law: a raw file shorter than the expected length E loads
\* successfully as its bytes followed by zeros up to E bytes.
C3_PaddingLaw ==
    (stage = "load" /\ rawFile.status = "ok" /\ Len(rawFile.bytes) < ExpectedLen)
        => /\ pc # "failed"
           /\ RawBytes = rawFile.bytes \o Zeros(ExpectedLen - Len(rawFile.bytes))

\* C4. Truncation law: a raw file longer than the expected length E loads
\* successfully as exactly its first E bytes.
C4_TruncationLaw ==
    (stage = "load" /\ rawFile.status = "ok" /\ Len(rawFile.bytes) > ExpectedLen)
        => /\ pc # "failed"
           /\ RawBytes = SubSeq(rawFile.bytes, 1, ExpectedLen)

\* C5. Load never fails because of a length mismatch: with a valid header
\* and a readable raw file of any length the load stage succeeds, and an
\* empty file yields an all-zero buffer of the expected length.
C5_MismatchNeverFails ==
    (stage = "load" /\ rawFile.status = "ok")
        => /\ pc # "failed"
           /\ (Len(rawFile.bytes) = 0 => RawBytes = Zeros(ExpectedLen))

\* C6. A header whose first line does not start with the literal NRRD
\* always fails to parse with the invalid-magic error, whatever its other
\* lines hold.
C6_BadMagicAlwaysFails ==
    (stage # "none" /\ input.readable /\ ~HasLiteralPrefix(input.magic, Txt_NRRD))
        => (pc = "failed" /\ stage = "parse" /\ Error = "InvalidMagic")

\* a header that parses once its endian line is removed
ValidButForEndian == ParseNRRDHeader(variant, [input EXCEPT !.endian = <<>>]).ok

ValidButForEncoding == ParseNRRDHeader(variant, [input EXCEPT !.encoding = <<Txt_raw>>]).ok

\* C8. An encoding line with a value other than raw (in any letter case)
\* is fatal: no buffer is loaded and no volume is made, and for a header
\* that is valid otherwise the error is unsupported-encoding.
C8_UnsupportedEncodingFatal ==
    /\ (Len(input.encoding) = 1 /\ input.encoding \notin {<<Txt_raw>>, <<Txt_RAW>>})
          => /\ pc \notin {"loaded", "stats", "done"}
             /\ RawBytes = <<>> /\ ~Tex.made
             /\ (pc = "failed" /\ ValidButForEncoding) => Error = "UnsupportedEncoding"
    /\ input.encoding \in {<<Txt_raw>>, <<Txt_RAW>>} => Error # "UnsupportedEncoding"

C8_Witness ==
    /\ variant = "CppB"
    /\ input.encoding = <<Txt_gzip>>
    /\ pc = "failed"
    /\ Error = "UnsupportedEncoding"

\* a header that parses and loads once its type line reads short
ValidButForType == ParseNRRDHeader(variant, [input EXCEPT !.type = <<Txt_short>>]).ok

\* C9. A declared type other than short/int16 never aborts the decode: a
\* header that is valid otherwise parses, loads and is decoded as 2-byte
\* samples whatever its type line holds.
C9_TypeNeverFatal ==
    ValidButForType
        => /\ stage = "parse" => pc = "parsed"
           /\ (stage = "load" /\ rawFile.status = "ok") => pc # "failed"
           /\ Error \notin {"UnsupportedType", "MissingType"}

\* C10. Parse fails with the unsupported-dimension error only for a
\* dimension line whose value is not 3: a header with no dimension line
\* passes the dimension check.
C10_DimensionOnlyWhenDeclared ==
    /\ Error = "UnsupportedDimension" => input.dim \notin {<<>>, <<IntText(3)>>}
    /\ (stage = "parse" /\ input.dim = <<IntText(2)>>
          /\ ParseNRRDHeader(variant, [input EXCEPT !.dim = <<IntText(3)>>]).ok)
          => (pc = "failed" /\ Error = "UnsupportedDimension")


\* a header that parses once its sizes line reads "1 1 2"
ValidButForSizes ==
    ParseNRRDHeader(variant, [input EXCEPT !.sizes = << <<IntText(1), IntText(1), IntText(2)>> >>]).ok

\* C11. A sizes line with fewer or more than three tokens makes the parse
\* fail (with the invalid-sizes error when the header is valid otherwise),
\* and no volume is produced.
C11_SizesCountExactlyThree ==
    (stage # "none" /\ Len(input.sizes) = 1 /\ Len(input.sizes[1]) # 3)
        => /\ pc = "failed" /\ stage = "parse"
           /\ ValidButForSizes => Error = "InvalidSizes"
           /\ ~Tex.made

\* the sizes line holds three integers, each of them positive
SizesLinePositive ==
    /\ Len(input.sizes) = 1
    /\ \E a, b, c \in 1..(MaxSize + 1) :
          input.sizes[1] = <<IntText(a), IntText(b), IntText(c)>>

\* the sizes line is absent or holds three integers of which one is not positive
SizesLineNotPositive ==
    \/ Len(input.sizes) = 0
    \/ /\ Len(input.sizes) = 1
       /\ \E a, b, c \in (0 - 1)..(MaxSize + 1) :
             /\ input.sizes[1] = <<IntText(a), IntText(b), IntText(c)>>
             /\ (a <= 0 \/ b <= 0 \/ c <= 0)

\* C12. A successful parse returns positive SizeX, SizeY and SizeZ; a
\* header whose sizes line is absent or holds a zero or negative value
\* fails, with the invalid-sizes error when it is valid otherwise.
C12_SizesPositive ==
    /\ ParseSucceeded => (Header.SizeX > 0 /\ Header.SizeY > 0 /\ Header.SizeZ > 0)
    /\ (stage # "none" /\ SizesLineNotPositive)
          => /\ pc = "failed" /\ stage = "parse"
             /\ ValidButForSizes => Error = "InvalidSizes"

\* text t is a decimal integer: an optional sign and then digits only
IsIntegerText(t) ==
    LET d == IF Len(t) > 0 /\ t[1] \in {"-", "+"} THEN Tail(t) ELSE t
    IN  Len(d) > 0 /\ \A i \in 1..Len(d) : IsDigit(d[i])

\* C13. A sizes line with a token that is not a valid integer makes the
\* parse fail (with the invalid-sizes error when the header is valid
\* otherwise); the token is neither read as a number nor skipped.
C13_InvalidTokenFails ==
    (stage # "none" /\ Len(input.sizes) = 1
       /\ \E i \in 1..Len(input.sizes[1]) : ~IsIntegerText(input.sizes[1][i]))
        => /\ pc = "failed" /\ stage = "parse"
           /\ ValidButForSizes => Error = "InvalidSizes"

\* the header file is read and starts with the magic; its keys are
\* written so that the prefix tests of the loop recognise them
MagicLineOk ==
    /\ input.readable
    /\ input.blank = 0
    /\ input.magic \in {Txt_NRRD0004, Txt_nrrd0004, Txt_spNRRD0004}

\* C14. The checks after the loop run in the order dimension, sizes, data
\* file and stop at the first that fails: a header without a data file
\* line never parses and, valid otherwise, reports missing data file; one
\* that also lacks positive sizes reports invalid sizes; one that also
\* lacks dimension 3 reports unsupported dimension.
C14_ValidationOrder ==
    (stage # "none" /\ MagicLineOk /\ input.keys # "spaced" /\ input.datafile = <<>>)
        => /\ pc = "failed" /\ stage = "parse"
           /\ ParseNRRDHeader(variant, [input EXCEPT !.datafile = <<Txt_vraw>>]).ok
                 => Error = "MissingDataFile"
           /\ (input.dim = <<IntText(3)>> /\ SizesLineNotPositive) => Error = "InvalidSizes"
           /\ (input.dim # <<IntText(3)>> /\ (SizesLineNotPositive \/ SizesLinePositive))
                 => Error = "UnsupportedDimension"

C14_Witness ==
    /\ variant = "CppB"
    /\ input.datafile = <<>>
    /\ input.sizes = <<>>
    /\ input.dim = <<IntText(3)>>
    /\ pc = "failed"
    /\ Error = "InvalidSizes"


\* the outcome of the parse: success flag, error and header
ParseOutcome == [ok |-> ParseSucceeded, Error |-> IF ParseSucceeded THEN "" ELSE Error,
                 Header |-> IF ParseSucceeded THEN [Header EXCEPT !.MinValue = 0, !.MaxValue = 0]
                            ELSE EmptyHeader]

\* C15. Keys are found by splitting at the first ':' and comparing the
\* trimmed left part without regard to case: a header written with keys in
\* capitals ("SIZES: 1 2 3") or with a space before the colon
\* ("sizes : 1 2 3") parses exactly as the same header written
\* "sizes: 1 2 3", and a value that holds a ':' is kept whole.
C15_KeyRecognition ==
    stage = "parse"
        => /\ ParseOutcome = ParseNRRDHeader(variant, [input EXCEPT !.keys = "plain"])
           /\ (pc = "parsed" /\ input.datafile = <<Txt_dvraw>>)
                 => Header.DataFileName = Txt_dvraw

\* the 2-byte samples of buffer b, read as little-endian signed integers
SamplesOf(b) ==
    { LET u == b[2 * i - 1] + 256 * b[2 * i]
      IN  IF u >= 32768 THEN u - 65536 ELSE u : i \in 1..(Len(b) \div 2) }

\* the min/max stage has run on the loaded buffer
StatsRan == variant = "CppB" /\ stage \in {"stats", "texture"}

\* C16. For a buffer with at least one full sample the computed minimum
\* and maximum are the smallest and the largest of its little-endian
\* signed 16-bit samples, so min <= max and both lie in -32768..32767.
C16_MinMaxExact ==
    (StatsRan /\ Len(RawBytes) >= 2)
        => /\ MinVal \in SamplesOf(RawBytes) /\ \A x \in SamplesOf(RawBytes) : MinVal <= x
           /\ MaxVal \in SamplesOf(RawBytes) /\ \A x \in SamplesOf(RawBytes) : x <= MaxVal
           /\ MinVal <= MaxVal
           /\ MinVal \in (0 - 32768)..32767 /\ MaxVal \in (0 - 32768)..32767

C16_Witness ==
    /\ StatsRan
    /\ RawBytes = FilePattern
    /\ MinVal = 0 - 100
    /\ MaxVal = 32767

\* C17. On a buffer of 0 or 1 bytes the min/max stage returns (0, 0),
\* reports no error and lets the decode go on.
C17_SentinelOnShortBuffer ==
    (StatsRan /\ Len(RawBytes) < 2)
        => /\ MinVal = 0 /\ MaxVal = 0
           /\ stage = "stats" => (pc = "stats" /\ Error = "")

C17_Witness ==
    /\ StatsRan
    /\ stage = "stats"
    /\ Len(RawBytes) = 1
    /\ MinVal = 0 /\ MaxVal = 0
    /\ pc = "stats"


\* C18. The pipeline aborts at the first fatal error: the stages run in
\* the order parse, load, min/max (where the revision has it), texture,
\* each only after the one before succeeded; after a failed stage no other
\* stage runs, the raw file is not read after a failed parse, and a failed
\* call leaves no texture.
C18_AbortAtFirstError ==
    [][ /\ pc # "failed"
        /\ stage' = "parse" => stage = "none"
        /\ stage' = "load" => (stage = "parse" /\ pc = "parsed")
        /\ stage' = "stats" => (stage = "load" /\ pc = "loaded")
        /\ stage' = "texture"
              => IF variant = "CppB" THEN stage = "stats" /\ pc = "stats"
                                     ELSE stage = "load" /\ pc = "loaded"
        /\ pc' = "failed"
              => /\ ~Tex'.made
                 /\ stage' = "parse" => (rawFile' = UnopenedFile /\ RawBytes' = <<>>)
                 /\ stage' = "load" => (MinVal' = 0 /\ MaxVal' = 0)
      ]_vars

C18_Witness ==
    /\ stage = "load"
    /\ pc = "failed"
    /\ Error = "NotFound"
    /\ ~Tex.made


\* call c is pointed at a header that parses and a raw file that is there
CallSucceeds(c) ==
    /\ ~IsEmpty(call[c].NrrdHeaderPath)
    /\ ParseNRRDHeader_CppB(call[c].file).ok
    /\ call[c].raw.status = "ok"

\* the texture and header of the last call up to c that succeeded
RECURSIVE LastSuccessful(_)
LastSuccessful(c) ==
    IF c = 0 THEN <<NullTexture, EmptyHeader>>
    ELSE IF CallSucceeds(c)
    THEN <<call[c].Tex, ParseNRRDHeader_CppB(call[c].file).Header>>
    ELSE LastSuccessful(c - 1)

\* call c has returned (c = 0: the actor as constructed)
Returned(c) == IF c = 0 THEN TRUE ELSE call[c].pc = "returned"

\* the call after c has not begun to store its result
NextNotStoring(c) == IF c = MaxCalls THEN TRUE ELSE call[c + 1].pc \notin {"storedtex", "returned"}

\* C19. LoadedIntensityTexture and LastHeaderInfo describe the last
\* successful load: a call that fails at any stage leaves both as they
\* were, a call that succeeds has set both, to its own texture and its
\* parsed header, when it returns.
C19_LastSuccessfulLoad ==
    \A c \in 0..MaxCalls :
        (Returned(c) /\ NextNotStoring(c))
            => /\ <<LoadedIntensityTexture, LastHeaderInfo>> = LastSuccessful(c)
               /\ LoadedIntensityTexture.tex.made
                     => (LoadedIntensityTexture.obj \in 1..c /\ CallSucceeds(LoadedIntensityTexture.obj))

C19_Witness ==
    /\ call[1].pc = "returned" /\ CallSucceeds(1)
    /\ call[2].pc = "returned" /\ ~CallSucceeds(2) /\ ~IsEmpty(call[2].NrrdHeaderPath)
    /\ LoadedIntensityTexture = call[1].Tex
    /\ LoadedIntensityTexture.obj = 1
    /\ LastHeaderInfo.SizeX = 2

\* the result call c produces when it runs alone, as far as it has come
AloneHeader(c) == ParseNRRDHeader_CppB(call[c].file).Header

AloneBytes(c) == LoadRawData_CppB(AloneHeader(c), call[c].raw).bytes

\* C20. Concurrent decodes share no mutable state: whatever the
\* interleaving, every call's header, buffer, min/max and success are
\* those it produces alone, and no stored result pairs the texture of one
\* call with the header of another.
C20_NoSharedState ==
    /\ \A c \in Calls :
          /\ call[c].pc \in {"parsed", "loaded", "stats", "gottex", "storedtex"}
                => call[c].Header = AloneHeader(c)
          /\ call[c].pc \in {"loaded", "stats", "gottex", "storedtex"}
                => call[c].RawBytes = AloneBytes(c)
          /\ call[c].pc \in {"stats", "gottex", "storedtex"}
                => <<call[c].MinVal, call[c].MaxVal>>
                     = <<ComputeVolumeMinMaxInt16(AloneBytes(c)).Min,
                         ComputeVolumeMinMaxInt16(AloneBytes(c)).Max>>
          /\ call[c].pc \in {"gottex", "storedtex"}
                => (CallSucceeds(c) /\ call[c].Tex.obj = c /\ call[c].HeaderInfo = AloneHeader(c))
          /\ call[c].pc = "nulltex" => ~CallSucceeds(c)
    /\ (\A c \in Calls : call[c].pc # "storedtex")
          => \/ <<LoadedIntensityTexture, LastHeaderInfo>> = <<NullTexture, EmptyHeader>>
             \/ \E c \in Calls :
                   <<LoadedIntensityTexture, LastHeaderInfo>> = <<call[c].Tex, call[c].HeaderInfo>>

\* the header file has an endian line whose value is big in any letter case
EndianLineIsBig == Len(input.endian) = 1 /\ EqualsIgnoreCase(input.endian[1], Txt_big)

\* C21. The endian field never makes the parse fail: a header that is
\* valid otherwise parses whatever its endian line holds, and the parsed
\* header is big-endian exactly when the endian line has the value big (in
\* any letter case), little-endian when the line is absent or holds
\* anything else.
C21_EndianNeverFatal ==
    stage = "parse"
        => /\ ValidButForEndian => pc = "parsed"
           /\ pc = "parsed" => (Header.bLittleEndian <=> ~EndianLineIsBig)

\* C22. The magic check is applied to the first non-blank line: a header
\* file that begins with one or more empty lines followed by a line that
\* starts with NRRD passes the magic check and parses exactly like the same
\* file without the leading empty lines.
C22_LeadingBlankLines ==
    (stage = "parse" /\ input.readable /\ input.blank > 0
                     /\ HasLiteralPrefix(input.magic, Txt_NRRD))
        => /\ Error # "InvalidMagic"
           /\ ParseOutcome = ParseNRRDHeader(variant, [input EXCEPT !.blank = 0])

\* the buffer a second load of the same raw file returns
LoadAgain ==
    IF variant = "Part0" THEN LoadRawDataAndComputeMinMax_Part0(Header, rawFile).bytes
    ELSE LoadRawData(variant, Header, rawFile).bytes

EndToEndHeader ==
    input = [RefHeader EXCEPT !.sizes = << <<IntText(2), IntText(2), IntText(2)>> >>,
                              !.endian = <<Txt_little>>]

\* C24. End to end: the decode of a header with type short, dimension 3,
\* sizes 2 2 2, encoding raw, endian little and a data file of 16 zero
\* bytes succeeds at every stage and yields SizeX = SizeY = SizeZ = 2, a
\* buffer of 16 bytes, min = max = 0 and a volume.
C24_EndToEndZeros ==
    (EndToEndHeader /\ stage # "none")
        => /\ stage = "parse" => pc = "parsed"
           /\ Header.SizeX = 2 /\ Header.SizeY = 2 /\ Header.SizeZ = 2
           /\ (stage # "parse" /\ rawFile = ZeroFile)
                 => /\ pc # "failed"
                    /\ Len(RawBytes) = 16
                    /\ stage \in {"stats", "texture"} => (MinVal = 0 /\ MaxVal = 0)
                    /\ Header.MinValue = 0 /\ Header.MaxValue = 0
                    /\ stage = "texture" => (pc = "done" /\ Tex.made /\ Tex.bytes = ZeroFile.bytes)

C24_Witness ==
    /\ EndToEndHeader
    /\ rawFile = ZeroFile
    /\ pc = "done"
    /\ Header.SizeX = 2 /\ Header.SizeY = 2 /\ Header.SizeZ = 2
    /\ Len(RawBytes) = 16
    /\ MinVal = 0 /\ MaxVal = 0
    /\ Tex.made

\* the exact product SizeX * SizeY * SizeZ * 2 on 12 digits, which hold every
\* product of three 32-bit sizes and 2
ExactProduct(hdr) == ProductDigits(<<hdr.SizeX, hdr.SizeY, hdr.SizeZ, 2>>, 12)

\* the expected byte length computed for the parsed header is the exact product
NoWrapAround == Digits(ExpectedBytes(Header), 12) = ExactProduct(Header)

\* C25. For every header with positive 32-bit sizes the expected byte
\* length the load and the texture copy work with is the exact product
\* SizeX*SizeY*SizeZ*2, without wrap-around, and the loaded buffer and the
\* volume have exactly that many bytes.
C25_ExpectedBytesExact ==
    (ParseSucceeded /\ Header.SizeX > 0 /\ Header.SizeY > 0 /\ Header.SizeZ > 0)
        => /\ NoWrapAround
           /\ LoadSucceeded => Digits(Len(RawBytes), 12) = ExactProduct(Header)
           /\ Tex.made
                 => /\ Digits(Tex.ExpectedBytes, 12) = ExactProduct(Header)
                    /\ Digits(Len(Tex.bytes), 12) = ExactProduct(Header)

\* the float values (in thousandths) a spacings line is written with
SpacingValues == {500, 1500, 2000}

\* C26. Spacing remap: after a successful parse of a header whose spacings
\* line has the three tokens s0 s1 s2, the header has Spacing.X = s2,
\* Spacing.Y = s1 and Spacing.Z = s0 (the reversal the sizes get); without
\* a spacings line the spacing is (1, 1, 1).
C26_SpacingRemap ==
    (ParseSucceeded /\ input.keys # "spaced")
        => /\ input.spacings = <<>> => Header.Spacing = [X |-> 1000, Y |-> 1000, Z |-> 1000]
           /\ \A s0, s1, s2 \in SpacingValues :
                 input.spacings = << <<FloatText(s0), FloatText(s1), FloatText(s2)>> >>
                    => Header.Spacing = [X |-> s2, Y |-> s1, Z |-> s0]

C26_Witness ==
    /\ variant = "CppB"
    /\ pc = "parsed"
    /\ input.spacings = << <<FloatText(500), FloatText(1500), FloatText(2000)>> >>
    /\ Header.Spacing = [X |-> 2000, Y |-> 1500, Z |-> 500]

\* the min/max stage of the running revision has run and succeeded
MinMaxReported ==
    \/ StatsRan
    \/ variant = "Part0" /\ LoadSucceeded

\* the minimum and maximum the decode reports
ReportedMin == IF variant = "Part0" THEN Header.MinValue ELSE MinVal

ReportedMax == IF variant = "Part0" THEN Header.MaxValue ELSE MaxVal

\* the volume buffer of the expected length: the file bytes padded or cut
FinalBuffer == Reconciled(rawFile.bytes, ExpectedLen)

\* C27. The reported min and max are those of the samples of the final
\* volume buffer of the expected length: samples of the raw file beyond the
\* expected length have no influence, and the zero samples of the padding
\* count, so that min <= 0 <= max for a file shorter than expected.
C27_MinMaxOfFinalBuffer ==
    (MinMaxReported /\ ExpectedLen >= 2)
        => /\ ReportedMin \in SamplesOf(FinalBuffer)
           /\ ReportedMax \in SamplesOf(FinalBuffer)
           /\ \A x \in SamplesOf(FinalBuffer) : ReportedMin <= x /\ x <= ReportedMax
           /\ Len(rawFile.bytes) + 2 <= ExpectedLen => (ReportedMin <= 0 /\ 0 <= ReportedMax)

\* C28. No stage changes the output of an earlier stage: the load and the
\* min/max stage leave the parsed header as it is but for its MinValue and
\* MaxValue (sizes, endianness, bytes per voxel and raw file path stay),
\* the min/max stage leaves the byte buffer as it is, and texture creation
\* leaves both the header and the byte buffer as they are.
C28_StagesKeepEarlierOutput ==
    [][ /\ stage' \in {"load", "stats"}
              => Header' = [Header EXCEPT !.MinValue = Header'.MinValue,
                                          !.MaxValue = Header'.MaxValue]
        /\ stage' = "stats" => RawBytes' = RawBytes
        /\ stage' = "texture" => (Header' = Header /\ RawBytes' = RawBytes)
      ]_vars

C28_Witness ==
    /\ variant = "Part0"
    /\ stage = "texture"
    /\ pc = "done"
    /\ Header.MinValue = 0 - 100
    /\ Header.MaxValue = 32767
    /\ Header.SizeX = 2 /\ Header.SizeY = 2 /\ Header.SizeZ = 1
    /\ Header.RawFilePath = Txt_vraw
    /\ RawBytes = FilePattern

\* C29. Texture creation is memory-safe for every header and byte buffer
\* that reach it: it is never run with a zero or negative size (such a
\* header is turned down before any copy), the number of bytes copied lies
\* between 0 and the smaller of the expected length and the buffer length,
\* and the copied bytes and the zero fill together are exactly the expected
\* length SizeX*SizeY*SizeZ*2 >= 0, so that no read goes past the input
\* buffer and no write past the destination.
C29_TextureMemorySafe ==
    stage = "texture"
        => /\ Error # "AccessViolation"
           /\ (Header.SizeX <= 0 \/ Header.SizeY <= 0 \/ Header.SizeZ <= 0)
                 => (~Tex.made /\ Tex.CopyBytes = 0 /\ Tex.bytes = <<>>)
           /\ Tex.made
                 => /\ Tex.ExpectedBytes = ExpectedLen
                    /\ Tex.ExpectedBytes >= 0
                    /\ 0 <= Tex.CopyBytes
                    /\ Tex.CopyBytes <= Min2(Tex.ExpectedBytes, Len(RawBytes))
                    /\ Len(Tex.bytes) = Tex.ExpectedBytes
                    /\ \A i \in 1..Len(Tex.bytes) :
                          Tex.bytes[i] = IF i <= Tex.CopyBytes THEN RawBytes[i] ELSE 0

=============================================================================
